---- MODULE Spec2Model ----
(***************************************************************************)
(* A model of utils/db_manager.py: the DatabaseManager access layer over   *)
(* the remote key-value store (cache, write lock, operation locks,         *)
(* transactions, guild documents and the guilds index).                    *)
(*                                                                         *)
(* Python values are modelled with their type, because the code's          *)
(* behaviour depends on it: _write_data replaces a structured value by its *)
(* JSON text before it caches it, and a str supports neither .append nor   *)
(* item assignment.                                                        *)
(***************************************************************************)
EXTENDS Integers, Sequences, FiniteSets, TLC

\* ------------------------------------------------------------------ bounds
NumProcs == 2
MaxOps == 2
MaxTxns == 2
MaxChanges == 2
MaxCalls == 3
MaxGuildOps == 4
MaxTime == 2
MaxDocOps == 3
MaxUpdateOps == 3
MaxStatOps == 4
MaxMirrorOps == 3
MaxLiveOps == 2

Procs == 1..NumProcs
Times == 1..MaxTime

\* ------------------------------------------------------------------ values
\* Python values: None, a list, a dict, or a str holding some text.
NoneV == [t |-> "none"]
ListV(l) == [t |-> "list", l |-> l]
DictV(d) == [t |-> "dict", d |-> d]
StrV(x) == [t |-> "str", s |-> x]
\* "key not in self._cache"
Miss == [t |-> "miss"]

\* Texts (what travels to and from the store): the JSON encoding of a
\* structured value, or characters that are no JSON document.
JsonText(v) == [k |-> "json", v |-> v]
RawText(c) == [k |-> "raw", c |-> c]
\* The store holds no value under the key (GET answers 404).
Absent == [k |-> "absent"]

IsStr(v) == v.t = "str"

\* json.dumps(data)
Dumps(v) == JsonText(v)

\* json.loads(text), with the JSONDecodeError fallback of _read_data: a text
\* that is no JSON document is returned as the str it is.
Loads(text) == IF text.k = "json" THEN text.v ELSE StrV(text)

\* _write_data: "if not isinstance(data, str): data = json.dumps(data)".
\* The result is the rebound local `data`: always a str.
WData(data) == IF IsStr(data) THEN data ELSE StrV(Dumps(data))

\* Python truthiness of the values above ("x or []", "if not x").
Truthy(v) ==
    CASE v.t = "none" -> FALSE
      [] v.t = "list" -> Len(v.l) > 0
      [] v.t = "dict" -> DOMAIN v.d # {}
      [] v.t = "str"  -> TRUE

\* ------------------------------------------------------------------ keys
Guilds == {1, 12}
IdStr(g) == ToString(g)
GuildKey(g) == "guild:" \o IdStr(g)
GuildsKey == "guilds"
\* f"guild:{guild_id}" for a guild_id that is a str.
IdKey(s) == "guild:" \o s
\* The characters json.dumps writes for a list of guild ids.
IndexChars == {"[", "\"", "1", "2", ",", " ", "]"}
\* f"bot_stats:{bot_id}"
StatKey == "bot_stats:7"
Keys ==
    {GuildsKey, StatKey} \cup {GuildKey(g) : g \in Guilds}
                         \cup {IdKey(c) : c \in IndexChars}

\* ------------------------------------------------------------------ state
VARIABLES
    store,       \* the remote store: key -> text or Absent
    cache,       \* self._cache: key -> value or Miss
    writeLock,   \* self._write_lock: 0 (free) or the holder
    pc,          \* each caller's position
    kind,        \* the call a caller is running
    ckey,        \* the key of the current _read_data/_write_data call
    cdata,       \* the data argument of the current _write_data call
    reply,       \* the HTTP response a caller is about to handle
    wok,         \* what the caller's last _write_data returned
    ret,         \* what the caller's last _read_data returned
    posted,      \* the keys a caller has sent a POST for, in its current call
    ops,         \* calls started so far
    tphase,      \* the caller's DatabaseTransaction: none, new, active, ...
    tscope,      \* its (guild_id, namespace)
    changes,     \* its changes dict, in insertion order
    cidx,        \* the position of __aexit__'s loop over changes.items()
    texc,        \* the exc_type __aexit__ was given
    txnLock,     \* its _lock: TRUE when held
    nbuf,        \* assignments to changes dicts made so far
    opLocks,     \* self._operation_locks: name -> 0 (free) or the holder
    soName,      \* the operation_name of the caller's safe_operation call
    sres,        \* how the caller's safe_operation call ended
    fexc,        \* whether func raised in that call
    initialized, \* self._initialized
    last,        \* what the last call did, when it was a sync_guilds call
                 \* that met no fault
    scn,         \* progress of "ensure_guild_exists(g) twice in a row"
    dlast,       \* what the last call on a guild document did
    lg,          \* the add_log calls made so far, while nothing else was called
    arg          \* the arguments of the caller's update_section or
                 \* increment_stat call, and the status its GET met

kvVars == <<store, cache, writeLock, pc, kind, ckey, cdata, reply, wok, ret, posted, ops>>
txnVars == <<tphase, tscope, changes, cidx, texc, txnLock, nbuf>>
soVars == <<opLocks, soName, sres, fexc>>
gVars == <<initialized, last, scn>>
dVars == <<dlast, lg>>
rVars == <<arg>>
xVars == <<dVars, rVars>>
vars == <<kvVars, txnVars, soVars, gVars, xVars>>

NoReply == [status |-> 0, body |-> Absent]
NoScope == [g |-> 0, ns |-> "none"]
NoResult == [how |-> "none", val |-> NoneV]
NoCall == [op |-> "none"]
NoScn == [g |-> 0, n |-> 0, ok |-> TRUE, kept |-> TRUE, custom |-> FALSE]
NoLogs == [g |-> 0, given |-> <<>>]
NoArg == [kind |-> "none"]

\* Values the callers of this model write.
KVVals == { ListV(<<"1">>), DictV([name |-> "a"]), StrV(RawText("hello")) }
KVKeys == {GuildsKey, GuildKey(1)}

InitKV ==
    /\ store = [k \in Keys |-> Absent]
    /\ cache = [k \in Keys |-> Miss]
    /\ writeLock = 0
    /\ pc = [p \in Procs |-> "idle"]
    /\ kind = [p \in Procs |-> "none"]
    /\ ckey = [p \in Procs |-> GuildsKey]
    /\ cdata = [p \in Procs |-> NoneV]
    /\ reply = [p \in Procs |-> NoReply]
    /\ wok = [p \in Procs |-> FALSE]
    /\ ret = [p \in Procs |-> NoneV]
    /\ posted = [p \in Procs |-> <<>>]
    /\ ops = 0

InitTxn ==
    /\ tphase = [p \in Procs |-> "none"]
    /\ tscope = [p \in Procs |-> NoScope]
    /\ changes = [p \in Procs |-> <<>>]
    /\ cidx = [p \in Procs |-> 0]
    /\ texc = [p \in Procs |-> "none"]
    /\ txnLock = [p \in Procs |-> FALSE]
    /\ nbuf = 0

InitSO ==
    /\ opLocks = <<>>
    /\ soName = [p \in Procs |-> "none"]
    /\ sres = [p \in Procs |-> NoResult]
    /\ fexc = [p \in Procs |-> FALSE]

InitG ==
    /\ initialized = FALSE
    /\ last = NoCall
    /\ scn = NoScn

InitX ==
    /\ dlast = NoCall
    /\ lg = NoLogs
    /\ arg = [p \in Procs |-> NoArg]

Init == InitKV /\ InitTxn /\ InitSO /\ InitG /\ InitX

\* ------------------------------------------------------------- _read_data
\* Lines 54-60: a cache hit returns at once, with no request; a miss sends
\* the GET and suspends.
ReadEnter(p, k, c) ==
    IF c[k] # Miss
    THEN /\ ret' = [ret EXCEPT ![p] = c[k]]
         /\ pc' = [pc EXCEPT ![p] = "idle"]
    ELSE /\ ret' = [ret EXCEPT ![p] = NoneV]
         /\ pc' = [pc EXCEPT ![p] = "r_sent"]

ReadCall(p) ==
    /\ pc[p] = "idle"
    /\ ops < MaxOps
    /\ \E k \in KVKeys :
        /\ ckey' = [ckey EXCEPT ![p] = k]
        /\ ReadEnter(p, k, cache)
    /\ kind' = [kind EXCEPT ![p] = "read"]
    /\ ops' = ops + 1
    /\ UNCHANGED <<store, cache, writeLock, cdata, reply, wok, posted>>
    /\ UNCHANGED <<txnVars, soVars, gVars, xVars>>

\* The store answers the GET: 200 with the text, 404, or a failure (another
\* status, or an exception of the transport).
GetReply(st, k, up) ==
    IF ~up THEN [status |-> 500, body |-> Absent]
    ELSE IF st[k] = Absent THEN [status |-> 404, body |-> Absent]
    ELSE [status |-> 200, body |-> st[k]]

ServerGet(p) ==
    /\ pc[p] = "r_sent"
    /\ \E up \in BOOLEAN :
        reply' = [reply EXCEPT ![p] = GetReply(store, ckey[p], up)]
    /\ pc' = [pc EXCEPT ![p] = "r_replied"]
    /\ UNCHANGED <<store, cache, writeLock, kind, ckey, cdata, wok, ret, posted, ops>>
    /\ UNCHANGED <<txnVars, soVars, gVars, xVars>>

\* Lines 61-78: what _read_data returns for a response.
ReadResult(r) == IF r.status = 200 THEN Loads(r.body) ELSE NoneV

\* Lines 67 and 71: a 200 response fills the cache.
CacheAfterRead(c, k, r) ==
    IF r.status = 200 THEN [c EXCEPT ![k] = ReadResult(r)] ELSE c

ReadResponse(p) ==
    /\ pc[p] = "r_replied"
    /\ ret' = [ret EXCEPT ![p] = ReadResult(reply[p])]
    /\ cache' = CacheAfterRead(cache, ckey[p], reply[p])
    /\ reply' = [reply EXCEPT ![p] = NoReply]
    /\ pc' = [pc EXCEPT ![p] = "idle"]
    /\ UNCHANGED <<store, writeLock, kind, ckey, cdata, wok, posted, ops>>
    /\ UNCHANGED <<txnVars, soVars, gVars, xVars>>

\* ------------------------------------------------------------ _write_data
\* A caller runs _write_data(k, v); with kind "write_read" it then calls
\* _read_data(k) at once.
WriteCall(p) ==
    /\ pc[p] = "idle"
    /\ ops < MaxOps
    /\ \E k \in KVKeys, v \in KVVals, kd \in {"write", "write_read"} :
        /\ ckey' = [ckey EXCEPT ![p] = k]
        /\ cdata' = [cdata EXCEPT ![p] = v]
        /\ kind' = [kind EXCEPT ![p] = kd]
    /\ pc' = [pc EXCEPT ![p] = "w_lock"]
    /\ wok' = [wok EXCEPT ![p] = FALSE]
    /\ ret' = [ret EXCEPT ![p] = NoneV]
    /\ posted' = [posted EXCEPT ![p] = <<>>]
    /\ ops' = ops + 1
    /\ UNCHANGED <<store, cache, writeLock, reply>>
    /\ UNCHANGED <<txnVars, soVars, gVars, xVars>>

\* A writer that does not wait for the lock.
WriteLockFreeWrong == TRUE
\* "async with self._write_lock"
WriteLockFree == writeLock = 0

\* Lines 84-92: take the write lock, build the payload, send the POST.
WAcquire(p) ==
    /\ pc[p] = "w_lock"
    /\ WriteLockFree
    /\ writeLock' = p
    /\ pc' = [pc EXCEPT ![p] = "w_sent"]
    /\ posted' = [posted EXCEPT ![p] = Append(posted[p], ckey[p])]
    /\ UNCHANGED <<store, cache, kind, ckey, cdata, reply, wok, ret, ops>>
    /\ UNCHANGED <<txnVars, soVars, gVars, xVars>>

\* The store handles the POST: it stores the text and answers 200, or the
\* request fails ("rejected": nothing stored; "lost": stored, but the
\* response does not arrive as a 200).
WFaults == {"ok", "rejected", "lost"}
StoreAfterPost(st, k, data, f) ==
    IF f = "rejected" THEN st ELSE [st EXCEPT ![k] = WData(data).s]
PostReply(f) == [status |-> IF f = "ok" THEN 200 ELSE 500, body |-> Absent]

ServerPost(p) ==
    /\ pc[p] = "w_sent"
    /\ \E f \in WFaults :
        /\ store' = StoreAfterPost(store, ckey[p], cdata[p], f)
        /\ reply' = [reply EXCEPT ![p] = PostReply(f)]
    /\ pc' = [pc EXCEPT ![p] = "w_replied"]
    /\ UNCHANGED <<cache, writeLock, kind, ckey, cdata, wok, ret, posted, ops>>
    /\ UNCHANGED <<txnVars, soVars, gVars, xVars>>

\* Lines 93-101: on 200 the cache takes `data` and the call returns True;
\* the lock is released on the way out.
CacheAfterWrite(c, k, data, status) ==
    IF status = 200 THEN [c EXCEPT ![k] = WData(data)] ELSE c

\* A commit that walks the pairs from the last one back.
CommitItemWrong(ch, i) == ch[Len(ch) + 1 - i]
\* DatabaseTransaction.__aexit__, line 28: changes.items() yields the pairs
\* in insertion order.
CommitItem(ch, i) == ch[i]

\* A write lock that stays with its holder when the write failed.
LockAfterWriteWrong(holder, ok) == IF ok THEN 0 ELSE holder
\* Leaving "async with self._write_lock" (line 84): the lock is released
\* whether the block returned True, returned False or raised.
LockAfterWrite(holder, ok) == 0

\* A commit that stops at the first write that fails.
CommitGoesOnWrong(ok, i, n) == ok /\ i < n
\* DatabaseTransaction.__aexit__, lines 28-29: the loop drops what
\* _write_data returns and goes on while pairs are left.
CommitGoesOn(ok, i, n) == i < n

\* A _write_data call returns to its caller. A transaction's commit goes on
\* with the next pair, or leaves the loop and releases the transaction's
\* lock (lines 28-31); a func of safe_operation that called it goes on.
WResponse(p) ==
    /\ pc[p] = "w_replied"
    /\ cache' = CacheAfterWrite(cache, ckey[p], cdata[p], reply[p].status)
    /\ wok' = [wok EXCEPT ![p] = (reply[p].status = 200)]
    /\ writeLock' = LockAfterWrite(p, reply[p].status = 200)
    /\ reply' = [reply EXCEPT ![p] = NoReply]
    /\ CASE kind[p] = "write_read" ->
              /\ ReadEnter(p, ckey[p], cache')
              /\ UNCHANGED <<ckey, cdata, txnVars>>
         [] kind[p] = "so_write" ->
              /\ pc' = [pc EXCEPT ![p] = "so_body"]
              /\ UNCHANGED <<ret, ckey, cdata, txnVars>>
         [] kind[p] = "txn" /\ CommitGoesOn(wok'[p], cidx[p], Len(changes[p])) ->
              /\ cidx' = [cidx EXCEPT ![p] = cidx[p] + 1]
              /\ ckey' = [ckey EXCEPT ![p] = CommitItem(changes[p], cidx[p] + 1)[1]]
              /\ cdata' = [cdata EXCEPT ![p] = CommitItem(changes[p], cidx[p] + 1)[2]]
              /\ pc' = [pc EXCEPT ![p] = "w_lock"]
              /\ UNCHANGED <<ret, tphase, tscope, changes, texc, txnLock, nbuf>>
         [] kind[p] = "txn" /\ ~CommitGoesOn(wok'[p], cidx[p], Len(changes[p])) ->
              /\ tphase' = [tphase EXCEPT ![p] = "released"]
              /\ txnLock' = [txnLock EXCEPT ![p] = FALSE]
              /\ pc' = [pc EXCEPT ![p] = "idle"]
              /\ UNCHANGED <<ret, ckey, cdata, tscope, changes, cidx, texc, nbuf>>
         [] OTHER ->
              /\ pc' = [pc EXCEPT ![p] = "idle"]
              /\ UNCHANGED <<ret, ckey, cdata, txnVars>>
    /\ UNCHANGED <<store, kind, posted, ops, soVars, gVars, xVars>>

Next ==
    \E p \in Procs :
        \/ ReadCall(p)
        \/ ServerGet(p)
        \/ ReadResponse(p)
        \/ WriteCall(p)
        \/ WAcquire(p)
        \/ ServerPost(p)
        \/ WResponse(p)

Spec == Init /\ [][Next]_vars

\* ---------------------------------------------------- DatabaseTransaction
Scopes == { [g |-> g, ns |-> "xp"] : g \in Guilds }
TxnVals == { DictV([name |-> "a"]), StrV(RawText("hello")) }

\* DatabaseManager.transaction and DatabaseTransaction.__init__: every call
\* builds a new object with a lock and a changes dict of its own.
NewTxnLock == FALSE

\* "async with await db.transaction(g, ns)": the object is built and its
\* __aenter__ takes the new lock ("await self._lock.acquire()"); neither
\* suspends.
TxnBegin(p) ==
    /\ pc[p] = "idle"
    /\ tphase[p] \in {"none", "released"}
    /\ ops < MaxTxns
    /\ \E sc \in Scopes : tscope' = [tscope EXCEPT ![p] = sc]
    /\ ~NewTxnLock
    /\ txnLock' = [txnLock EXCEPT ![p] = TRUE]
    /\ tphase' = [tphase EXCEPT ![p] = "active"]
    /\ changes' = [changes EXCEPT ![p] = <<>>]
    /\ cidx' = [cidx EXCEPT ![p] = 0]
    /\ texc' = [texc EXCEPT ![p] = "none"]
    /\ posted' = [posted EXCEPT ![p] = <<>>]
    /\ kind' = [kind EXCEPT ![p] = "txn"]
    /\ ops' = ops + 1
    /\ UNCHANGED <<store, cache, writeLock, pc, ckey, cdata, reply, wok, ret, nbuf, soVars, gVars, xVars>>

\* The dict assignment "changes[k] = v": a new key goes to the end, a key
\* already present keeps its place and takes the new value.
HasKey(ch, k) == \E i \in 1..Len(ch) : ch[i][1] = k
DictSet(ch, k, v) ==
    IF HasKey(ch, k)
    THEN [i \in 1..Len(ch) |-> IF ch[i][1] = k THEN <<k, v>> ELSE ch[i]]
    ELSE Append(ch, <<k, v>>)

\* The body of the scope buffers a change.
TxnBuffer(p) ==
    /\ tphase[p] = "active"
    /\ nbuf < MaxChanges
    /\ nbuf' = nbuf + 1
    /\ \E k \in KVKeys, v \in TxnVals :
        /\ DictSet(changes[p], k, v) # changes[p]
        /\ changes' = [changes EXCEPT ![p] = DictSet(changes[p], k, v)]
    /\ UNCHANGED <<kvVars, tphase, tscope, cidx, texc, txnLock, soVars, gVars, xVars>>

\* An __aexit__ that commits whatever exc_type is.
CommitsWrong(exc) == TRUE
\* __aexit__, line 26: "if exc_type is None".
Commits(exc) == exc = "none"

\* __aexit__: the scope ends, cleanly or with an exception. A commit with
\* pairs to write calls _write_data for the first one; otherwise the lock is
\* released at once.
TxnExit(p) ==
    /\ tphase[p] = "active"
    /\ \E exc \in {"none", "error"} :
        /\ texc' = [texc EXCEPT ![p] = exc]
        /\ IF Commits(exc) /\ Len(changes[p]) > 0
           THEN /\ tphase' = [tphase EXCEPT ![p] = "committing"]
                /\ cidx' = [cidx EXCEPT ![p] = 1]
                /\ ckey' = [ckey EXCEPT ![p] = CommitItem(changes[p], 1)[1]]
                /\ cdata' = [cdata EXCEPT ![p] = CommitItem(changes[p], 1)[2]]
                /\ pc' = [pc EXCEPT ![p] = "w_lock"]
                /\ txnLock' = txnLock
           ELSE /\ tphase' = [tphase EXCEPT ![p] = "released"]
                /\ txnLock' = [txnLock EXCEPT ![p] = FALSE]
                /\ UNCHANGED <<cidx, ckey, cdata, pc>>
    /\ UNCHANGED <<store, cache, writeLock, kind, reply, wok, ret, posted, ops>>
    /\ UNCHANGED <<tscope, changes, nbuf, soVars, gVars, xVars>>

NextTxn ==
    \E p \in Procs :
        \/ TxnBegin(p)
        \/ TxnBuffer(p)
        \/ TxnExit(p)
        \/ WAcquire(p)
        \/ ServerPost(p)
        \/ WResponse(p)

SpecTxn == Init /\ [][NextTxn]_vars

\* --------------------------------------------------------- safe_operation
OpNames == {"update_user_xp", "add_log"}
FuncResult == StrV(RawText("result"))

\* Lines 196-197: the lock of a name is created on its first use.
Registered(locks, n) ==
    [m \in DOMAIN locks \cup {n} |-> IF m \in DOMAIN locks THEN locks[m] ELSE 0]

\* A caller that does not wait for the lock of its name.
OpLockFreeWrong(locks, n) == TRUE
\* "async with self._operation_locks[operation_name]"
OpLockFree(locks, n) == locks[n] = 0

\* safe_operation(name, func) is called: the lock is registered, and taken
\* at once when it is free; otherwise the caller waits for it.
SoCall(p) ==
    /\ pc[p] = "idle"
    /\ ops < MaxCalls
    /\ \E n \in OpNames :
        /\ soName' = [soName EXCEPT ![p] = n]
        /\ IF OpLockFree(Registered(opLocks, n), n)
           THEN /\ opLocks' = [Registered(opLocks, n) EXCEPT ![n] = p]
                /\ pc' = [pc EXCEPT ![p] = "so_body"]
           ELSE /\ opLocks' = Registered(opLocks, n)
                /\ pc' = [pc EXCEPT ![p] = "so_wait"]
    /\ sres' = [sres EXCEPT ![p] = NoResult]
    /\ fexc' = [fexc EXCEPT ![p] = FALSE]
    /\ kind' = [kind EXCEPT ![p] = "safe_op"]
    /\ ops' = ops + 1
    /\ UNCHANGED <<store, cache, writeLock, ckey, cdata, reply, wok, ret, posted, txnVars, gVars, xVars>>

\* A waiting caller gets the lock once it is free.
SoAcquire(p) ==
    /\ pc[p] = "so_wait"
    /\ OpLockFree(opLocks, soName[p])
    /\ opLocks' = [opLocks EXCEPT ![soName[p]] = p]
    /\ pc' = [pc EXCEPT ![p] = "so_body"]
    /\ UNCHANGED <<store, cache, writeLock, kind, ckey, cdata, reply, wok, ret, posted, ops>>
    /\ UNCHANGED <<txnVars, soName, sres, fexc, gVars, xVars>>

\* Lines 200-205: the result of func is returned; an exception of func is
\* logged and None is returned.
SoResult(raised) ==
    IF raised THEN [how |-> "return", val |-> NoneV]
    ELSE [how |-> "return", val |-> FuncResult]

\* A release that is skipped when func raised.
SoReleaseWrong(locks, n, raised) == IF raised THEN locks ELSE [locks EXCEPT ![n] = 0]
\* Leaving "async with": the lock is released however the block ends.
SoRelease(locks, n, raised) == [locks EXCEPT ![n] = 0]

\* func ends, with a result or with an exception.
SoBodyEnd(p) ==
    /\ pc[p] = "so_body"
    /\ \E raised \in BOOLEAN :
        /\ fexc' = [fexc EXCEPT ![p] = raised]
        /\ sres' = [sres EXCEPT ![p] = SoResult(raised)]
        /\ opLocks' = SoRelease(opLocks, soName[p], raised)
    /\ pc' = [pc EXCEPT ![p] = "idle"]
    /\ UNCHANGED <<store, cache, writeLock, kind, ckey, cdata, reply, wok, ret, posted, ops>>
    /\ UNCHANGED <<txnVars, soName, gVars, xVars>>

NextSO ==
    \E p \in Procs :
        \/ SoCall(p)
        \/ SoAcquire(p)
        \/ SoBodyEnd(p)

SpecSO == Init /\ [][NextSO]_vars

\* -------------------------------------------- the store calls, run whole
\* The guild operations below are taken one call at a time, each run to its
\* end. st carries the store and the cache through the call, with the
\* number of requests sent so far (n), the fault of this call (fault) and
\* whether a request has failed (failed), and whether a POST has (wfailed).
\* A call meets no fault, a store that is down throughout, or one request
\* (the at-th) that fails: "rejected" (nothing stored) or "lost" (a POST is
\* stored, but no 200 arrives).
\* Faults(k) are the faults of a call that sends at most k requests.
NoFault == [at |-> 0, how |-> "ok"]
Faults(k) ==
    {NoFault, [at |-> 0, how |-> "down"]}
    \cup {[at |-> j, how |-> h] : j \in 1..k, h \in {"rejected", "lost"}}
FaultOf(st) ==
    IF st.fault.how = "down" THEN "rejected"
    ELSE IF st.fault.at = st.n + 1 THEN st.fault.how
    ELSE "ok"
Begin(s, c, f) ==
    [store |-> s, cache |-> c, n |-> 0, fault |-> f, failed |-> FALSE, wfailed |-> FALSE]

\* _read_data(k): val is what it returns.
RunRead(st, k) ==
    IF st.cache[k] # Miss
    THEN [st |-> st, val |-> st.cache[k]]
    ELSE [st |-> [st EXCEPT
                    !.cache = CacheAfterRead(st.cache, k,
                                             GetReply(st.store, k, FaultOf(st) = "ok")),
                    !.n = st.n + 1,
                    !.failed = st.failed \/ FaultOf(st) # "ok"],
          val |-> ReadResult(GetReply(st.store, k, FaultOf(st) = "ok"))]

\* _write_data(k, data): ok is what it returns.
RunWrite(st, k, data) ==
    [st |-> [st EXCEPT
                !.store = StoreAfterPost(st.store, k, data, FaultOf(st)),
                !.cache = CacheAfterWrite(st.cache, k, data, PostReply(FaultOf(st)).status),
                !.n = st.n + 1,
                !.failed = st.failed \/ FaultOf(st) # "ok",
                !.wfailed = st.wfailed \/ FaultOf(st) # "ok"],
     ok |-> PostReply(FaultOf(st)).status = 200]

\* ------------------------------------------------------- guild documents
GuildName(g) == IF g = 1 THEN "alpha" ELSE "beta"

\* The document ensure_guild_exists and sync_guilds create (lines 366-374
\* and 439-447); t is the clock reading.
DefaultDoc(g, t) ==
    [id |-> IdStr(g), name |-> GuildName(g), joined_at |-> t,
     whisper_config |-> [enabled |-> FALSE],
     logs |-> [enabled |-> FALSE],
     xp_settings |-> [enabled |-> TRUE, rate |-> 15, cooldown |-> 60],
     roles |-> [color_roles |-> <<>>, level_roles |-> <<>>]]

\* "x or []", "x or {}"
OrElse(v, dflt) == IF Truthy(v) THEN v ELSE dflt

\* A test that takes every guild for a new one.
NeedsInitWrong(doc) == TRUE
\* "if not guild_data": the guild has no document yet.
NeedsInit(doc) == ~Truthy(doc)

\* json.dumps of a list of strings, as characters: ["1", "12"]
RECURSIVE RenderItems(_)
RenderItems(l) ==
    IF Len(l) = 0 THEN ""
    ELSE IF Len(l) = 1 THEN "\"" \o l[1] \o "\""
    ELSE "\"" \o l[1] \o "\", " \o RenderItems(Tail(l))
Render(text) ==
    CASE text.k = "raw" -> text.c
      [] text.k = "json" /\ text.v.t = "list" -> "[" \o RenderItems(text.v.l) \o "]"

IsSubstring(a, b) ==
    \E i \in 1..(Len(b) + 1 - Len(a)) : SubSeq(b, i, i + Len(a) - 1) = a

\* Python's "x in v" for a str x: an element of a list, a key of a dict, a
\* substring of a str.
Contains(v, x) ==
    CASE v.t = "list" -> \E i \in 1..Len(v.l) : v.l[i] = x
      [] v.t = "dict" -> x \in DOMAIN v.d
      [] v.t = "str"  -> IsSubstring(x, Render(v.s))

\* initialize, lines 146-160, from the first read on.
InitVerify(c) ==
    [st |-> c.st, ret |-> IF c.val = NoneV THEN "False" ELSE "True"]
InitCreate(b) ==
    IF ~b.ok THEN [st |-> b.st, ret |-> "False"]
    ELSE InitVerify(RunRead(b.st, GuildsKey))
RunInitialize(a) ==
    IF a.val = NoneV
    THEN InitCreate(RunWrite(a.st, GuildsKey, ListV(<<>>)))
    ELSE InitVerify(RunRead(a.st, GuildsKey))

\* ensure_guild_exists, lines 450-454. The list that _read_data returned is
\* the object the cache holds, so "guilds.append" changes the cache entry
\* too; a str has no append, and the AttributeError ends the call with
\* False (lines 456-458).
EnsureIndex(st, read, g) ==
    IF Contains(OrElse(read, ListV(<<>>)), IdStr(g))
    THEN [st |-> st, ret |-> "True"]
    ELSE IF OrElse(read, ListV(<<>>)).t # "list"
    THEN [st |-> st, ret |-> "False"]
    ELSE [st |-> RunWrite(IF Truthy(read)
                          THEN [st EXCEPT !.cache[GuildsKey] =
                                    ListV(Append(read.l, IdStr(g)))]
                          ELSE st,
                          GuildsKey,
                          ListV(Append(OrElse(read, ListV(<<>>)).l, IdStr(g)))).st,
          ret |-> "True"]

\* ensure_guild_exists, lines 435-448: the document is created when the
\* guild has none.
EnsureDoc(b, g, t) ==
    IF NeedsInit(OrElse(b.val, DictV(<<>>)))
    THEN RunWrite(b.st, GuildKey(g), DictV(DefaultDoc(g, t))).st
    ELSE b.st

\* ensure_guild_exists, lines 431-458, from the read of the index on.
RunEnsure(a, g, t) ==
    EnsureIndex(EnsureDoc(RunRead(a.st, GuildKey(g)), g, t), a.val, g)

\* sync_guilds, lines 360-381: the loop over bot.guilds from position i on.
\* acc holds st, the list `guilds`, `success` and the guilds whose document
\* was written. No statement of the loop body raises on the values of this
\* model, so `failed` stays at its initial 0.
SyncOne(acc, a, g, t) ==
    [st |-> IF NeedsInit(OrElse(a.val, DictV(<<>>)))
            THEN RunWrite(a.st, GuildKey(g), DictV(DefaultDoc(g, t))).st
            ELSE a.st,
     guilds |-> Append(acc.guilds, IdStr(g)),
     success |-> acc.success + 1,
     wrote |-> IF NeedsInit(OrElse(a.val, DictV(<<>>)))
               THEN Append(acc.wrote, g) ELSE acc.wrote]

RECURSIVE SyncLoop(_, _, _, _)
SyncLoop(acc, gs, i, t) ==
    IF i > Len(gs) THEN acc
    ELSE SyncLoop(SyncOne(acc, RunRead(acc.st, GuildKey(gs[i])), gs[i], t), gs, i + 1, t)

\* sync_guilds, lines 383-389: the new index is written, the counts
\* returned.
SyncFinish(l) ==
    [st |-> RunWrite(l.st, GuildsKey, ListV(l.guilds)).st,
     success |-> l.success, nfailed |-> 0, wrote |-> l.wrote]
RunSync(st, gs, t) ==
    SyncFinish(SyncLoop([st |-> st, guilds |-> <<>>, success |-> 0, wrote |-> <<>>],
                        gs, 1, t))

\* An assignment that leaves the dict as it was.
SetSectionWrong(d, sec, data) == d
\* "guild_data[section] = data" on a dict.
SetSection(d, sec, data) ==
    [x \in DOMAIN d \cup {sec} |-> IF x = sec THEN data ELSE d[x]]

\* update_section, lines 217-222, from the read on. A non-empty document
\* that _read_data returned is the object the cache holds, so the
\* assignment changes the cache entry too; a str takes no item assignment,
\* and the TypeError leaves the call.
UpdateWrite(b) == [st |-> b.st, ret |-> IF b.ok THEN "True" ELSE "False"]
RunUpdateSection(a, g, sec, data) ==
    IF OrElse(a.val, DictV(<<>>)).t # "dict"
    THEN [st |-> a.st, ret |-> "TypeError"]
    ELSE UpdateWrite(
            RunWrite(IF Truthy(a.val)
                     THEN [a.st EXCEPT !.cache[GuildKey(g)] =
                               DictV(SetSection(a.val.d, sec, data))]
                     ELSE a.st,
                     GuildKey(g),
                     DictV(SetSection(OrElse(a.val, DictV(<<>>)).d, sec, data))))

\* ------------------------------------------------- the guild operations
CustomXp == [enabled |-> FALSE, rate |-> 15, cooldown |-> 60]

\* The guild lists a bot can be in: distinct guilds, in any order.
GuildLists ==
    {<<>>} \cup {<<g>> : g \in Guilds}
           \cup {<<pr[1], pr[2]>> : pr \in {q \in Guilds \X Guilds : q[1] # q[2]}}

\* The index the store holds, and how often IdStr(g) occurs in it.
IndexOf(st) ==
    IF st[GuildsKey].k = "json" /\ st[GuildsKey].v.t = "list"
    THEN st[GuildsKey].v.l ELSE <<>>
IndexCount(st, g) ==
    Cardinality({i \in 1..Len(IndexOf(st)) : IndexOf(st)[i] = IdStr(g)})
HasDoc(st, g) == st[GuildKey(g)] # Absent

\* What the call leaves behind.
Outcome(x) ==
    /\ store' = x.st.store
    /\ cache' = x.st.cache

Initialize ==
    /\ ops < MaxGuildOps
    /\ ops' = ops + 1
    /\ \E f \in Faults(3) :
        IF initialized
        THEN UNCHANGED <<store, cache, initialized>>
        ELSE \E x \in {RunInitialize(RunRead(Begin(store, cache, f), GuildsKey))} :
             /\ Outcome(x)
             /\ initialized' = (x.ret = "True")
    /\ last' = NoCall
    /\ scn' = NoScn
    /\ UNCHANGED <<writeLock, pc, kind, ckey, cdata, reply, wok, ret, posted>>
    /\ UNCHANGED <<txnVars, soVars, xVars>>

\* close, lines 166-174.
Close ==
    /\ ops < MaxGuildOps
    /\ ops' = ops + 1
    /\ cache' = [k \in Keys |-> Miss]
    /\ initialized' = FALSE
    /\ last' = NoCall
    /\ scn' = NoScn
    /\ UNCHANGED <<store, writeLock, pc, kind, ckey, cdata, reply, wok, ret, posted>>
    /\ UNCHANGED <<txnVars, soVars, xVars>>

EnsureGuildExists ==
    /\ ops < MaxGuildOps
    /\ ops' = ops + 1
    /\ \E g \in Guilds, t \in Times, f \in Faults(4) :
       \E x \in {RunEnsure(RunRead(Begin(store, cache, f), GuildsKey), g, t)} :
        /\ Outcome(x)
        /\ last' = NoCall
        /\ scn' = IF ~initialized \/ x.st.failed THEN NoScn
                  ELSE IF scn.g = g /\ scn.n = 1
                  THEN [scn EXCEPT !.n = 2,
                                   !.ok = scn.ok /\ x.ret = "True",
                                   !.kept = (x.st.store[GuildKey(g)] = store[GuildKey(g)])]
                  ELSE [g |-> g, n |-> 1, ok |-> x.ret = "True", kept |-> TRUE,
                        custom |-> FALSE]
    /\ UNCHANGED <<initialized, writeLock, pc, kind, ckey, cdata, reply, wok, ret, posted>>
    /\ UNCHANGED <<txnVars, soVars, xVars>>

SyncGuilds ==
    /\ ops < MaxGuildOps
    /\ ops' = ops + 1
    /\ \E gs \in GuildLists, t \in Times :
       \E f \in Faults(2 * Len(gs) + 1) :
       \E x \in {RunSync(Begin(store, cache, f), gs, t)} :
        /\ Outcome(x)
        /\ last' = IF x.st.failed THEN NoCall ELSE
                   [op |-> "sync",
                    n |-> Len(gs),
                    m |-> Cardinality({i \in 1..Len(gs) : HasDoc(store, gs[i])}),
                    wrote |-> Len(x.wrote),
                    created |-> Cardinality({i \in 1..Len(gs) :
                                    ~HasDoc(store, gs[i]) /\ HasDoc(x.st.store, gs[i])}),
                    kept |-> \A i \in 1..Len(gs) :
                                 HasDoc(store, gs[i]) =>
                                     x.st.store[GuildKey(gs[i])] = store[GuildKey(gs[i])],
                    success |-> x.success,
                    nfailed |-> x.nfailed]
    /\ scn' = NoScn
    /\ UNCHANGED <<initialized, writeLock, pc, kind, ckey, cdata, reply, wok, ret, posted>>
    /\ UNCHANGED <<txnVars, soVars, xVars>>

UpdateSection ==
    /\ ops < MaxGuildOps
    /\ ops' = ops + 1
    /\ \E g \in Guilds, f \in Faults(2) :
       \E x \in {RunUpdateSection(RunRead(Begin(store, cache, f), GuildKey(g)),
                                  g, "xp_settings", CustomXp)} :
        /\ Outcome(x)
        /\ last' = NoCall
        /\ scn' = IF scn.g = g /\ scn.n = 1 /\ ~x.st.failed /\ x.ret = "True"
                  THEN [scn EXCEPT !.custom = TRUE]
                  ELSE NoScn
    /\ UNCHANGED <<initialized, writeLock, pc, kind, ckey, cdata, reply, wok, ret, posted>>
    /\ UNCHANGED <<txnVars, soVars, xVars>>

NextGuild ==
    \/ Initialize
    \/ Close
    \/ EnsureGuildExists
    \/ SyncGuilds
    \/ UpdateSection

SpecGuild == Init /\ [][NextGuild]_vars

\* ------------------------------------------------ sections of a document
\* A section of a document holds a dict (a record here) or a list (a ListV).
IsListS(x) == "t" \in DOMAIN x /\ x.t = "list"
EmptyDict == <<>>
\* Truthiness of a section ("x or []").
SecTruthy(x) == IF IsListS(x) THEN Len(x.l) > 0 ELSE DOMAIN x # {}

\* get_section, lines 212-215, from the read on: "data.get(section, {})".
\* Neither a str nor a list has .get, and the AttributeError leaves the call.
RunGetSection(a, sec) ==
    IF OrElse(a.val, DictV(EmptyDict)).t # "dict"
    THEN [st |-> a.st, ret |-> "AttributeError", val |-> EmptyDict]
    ELSE [st |-> a.st, ret |-> "value",
          val |-> IF sec \in DOMAIN OrElse(a.val, DictV(EmptyDict)).d
                  THEN OrElse(a.val, DictV(EmptyDict)).d[sec]
                  ELSE EmptyDict]

\* add_log, line 250: the number of entries kept.
LogCap == 1000
\* "data[-1000:]"
LastOf(l, n) == IF Len(l) > n THEN SubSeq(l, Len(l) - n + 1, Len(l)) ELSE l

\* add_log, line 244: a non-empty list that get_section returned is part of
\* the document the cache holds, so "data.append" changes the cache entry.
AppendInPlace(st, k, l) ==
    [st EXCEPT !.cache[k] = DictV(SetSection(st.cache[k].d, "logs", ListV(l)))]

\* add_log, lines 241-253, from get_section's result on. A dict has no
\* append; the exceptions of get_section and update_section leave the call.
RunAddLog(s, g, e) ==
    IF s.ret # "value" THEN [st |-> s.st, ret |-> s.ret]
    ELSE IF SecTruthy(s.val) /\ ~IsListS(s.val)
    THEN [st |-> s.st, ret |-> "AttributeError"]
    ELSE IF SecTruthy(s.val)
    THEN RunUpdateSection(
            RunRead(AppendInPlace(s.st, GuildKey(g), Append(s.val.l, e)), GuildKey(g)),
            g, "logs", ListV(LastOf(Append(s.val.l, e), LogCap)))
    ELSE RunUpdateSection(RunRead(s.st, GuildKey(g)),
                          g, "logs", ListV(LastOf(<<e>>, LogCap)))

\* ------------------------------------------------------- cleanup_old_data
\* What "for x in v" yields: the elements of a list, the characters of a str.
Chars(s) == [i \in 1..Len(s) |-> SubSeq(s, i, i)]
Items(v) ==
    CASE v.t = "list" -> v.l
      [] v.t = "str"  -> Chars(Render(v.s))

\* "'logs' in data": a key of a dict, a substring of a str. The JSON text of
\* a document holds the name of each of its sections, and no other part of
\* the documents of this model holds one.
HasSection(data, sec) ==
    CASE data.t = "dict" -> sec \in DOMAIN data.d
      [] data.t = "str" /\ data.s.k = "json" /\ data.s.v.t = "dict" ->
            sec \in DOMAIN data.s.v.d
      [] OTHER -> Contains(data, sec)

\* The comprehensions of lines 266-285 over a section value v. Iterating a
\* dict yields its keys, and a str key has neither ['timestamp'] nor .get:
\* the exception ends the call. So does an entry of logs without timestamp.
DictFails(v) == ~IsListS(v) /\ DOMAIN v # {}
LogsFail(v) ==
    \/ DictFails(v)
    \/ IsListS(v) /\ \E i \in 1..Len(v.l) : "timestamp" \notin DOMAIN v.l[i]
KeepLogs(v, cutoff) ==
    ListV(IF IsListS(v) THEN SelectSeq(v.l, LAMBDA e : e.timestamp > cutoff) ELSE <<>>)
KeepActions(v, now) ==
    ListV(IF IsListS(v)
          THEN SelectSeq(v.l, LAMBDA a : "expires" \notin DOMAIN a \/ a.expires > now)
          ELSE <<>>)
KeepWhispers(v, cutoff) ==
    ListV(IF IsListS(v)
          THEN SelectSeq(v.l, LAMBDA w : "closed_at" \notin DOMAIN w \/ w.closed_at > cutoff)
          ELSE <<>>)

\* Lines 265-285 on a dict d, one section after the other; x.ok is FALSE
\* once a comprehension has raised.
CleanLogs(x, cutoff) ==
    IF ~x.ok \/ "logs" \notin DOMAIN x.d THEN x
    ELSE IF LogsFail(x.d.logs) THEN [x EXCEPT !.ok = FALSE]
    ELSE [x EXCEPT !.d = SetSection(x.d, "logs", KeepLogs(x.d.logs, cutoff))]
CleanActions(x, now) ==
    IF ~x.ok \/ "mod_actions" \notin DOMAIN x.d THEN x
    ELSE IF DictFails(x.d.mod_actions) THEN [x EXCEPT !.ok = FALSE]
    ELSE [x EXCEPT !.d = SetSection(x.d, "mod_actions", KeepActions(x.d.mod_actions, now))]
CleanWhispers(x, cutoff) ==
    IF ~x.ok \/ "whispers" \notin DOMAIN x.d THEN x
    ELSE IF DictFails(x.d.whispers) THEN [x EXCEPT !.ok = FALSE]
    ELSE [x EXCEPT !.d = SetSection(x.d, "whispers", KeepWhispers(x.d.whispers, cutoff))]
CleanDoc(d, now, cutoff) ==
    CleanWhispers(CleanActions(CleanLogs([d |-> d, ok |-> TRUE], cutoff), now), cutoff)

\* Lines 262-287 for one guild_id, from the read of its document on. A
\* non-empty document that _read_data returned is the object the cache
\* holds, so the assignments change the cache entry; a str or a list that
\* holds a section name takes no ['logs'].
CleanWrite(st, k, c) ==
    IF c.ok THEN [st |-> RunWrite(st, k, DictV(c.d)).st, ok |-> TRUE]
    ELSE [st |-> st, ok |-> FALSE]
CleanOne(a, k, now, cutoff) ==
    IF OrElse(a.val, DictV(EmptyDict)).t # "dict"
    THEN IF \E sec \in {"logs", "mod_actions", "whispers"} : HasSection(a.val, sec)
         THEN [st |-> a.st, ok |-> FALSE]
         ELSE [st |-> RunWrite(a.st, k, a.val).st, ok |-> TRUE]
    ELSE IF Truthy(a.val)
    THEN CleanWrite([a.st EXCEPT !.cache[k] = DictV(CleanDoc(a.val.d, now, cutoff).d)],
                    k, CleanDoc(a.val.d, now, cutoff))
    ELSE CleanWrite(a.st, k, CleanDoc(EmptyDict, now, cutoff))

\* The loop of line 261 from position i on; an exception ends the call with
\* False (lines 290-292).
RECURSIVE CleanLoop(_, _, _, _, _)
CleanNext(r, items, i, now, cutoff) ==
    IF r.ok THEN CleanLoop(r.st, items, i + 1, now, cutoff)
    ELSE [st |-> r.st, ret |-> "False"]
CleanLoop(st, items, i, now, cutoff) ==
    IF i > Len(items) THEN [st |-> st, ret |-> "True"]
    ELSE CleanNext(CleanOne(RunRead(st, IdKey(items[i])), IdKey(items[i]), now, cutoff),
                   items, i, now, cutoff)

\* cleanup_old_data, lines 255-292, from the read of the index on.
RunCleanup(a, now, days) ==
    CleanLoop(a.st, Items(OrElse(a.val, ListV(<<>>))), 1, now, now - days)

\* --------------------------------------------------------------- optimize
\* Lines 303-305 for one guild_id, from the read of its document on.
OptOne(a, k) == IF Truthy(a.val) THEN RunWrite(a.st, k, a.val).st ELSE a.st
RECURSIVE OptLoop(_, _, _)
OptLoop(st, items, i) ==
    IF i > Len(items) THEN [st |-> st, ret |-> "True"]
    ELSE OptLoop(OptOne(RunRead(st, IdKey(items[i])), IdKey(items[i])), items, i + 1)
\* optimize, lines 301-307, from the read of the index on.
RunOptimize(a) == OptLoop(a.st, Items(OrElse(a.val, ListV(<<>>))), 1)

\* ------------------------------------------- the document operations

\* The sections callers write with update_section.
DocSections ==
    { <<"xp_settings", CustomXp>>,
      <<"mod_actions", ListV(<<[kind |-> "warn"], [kind |-> "warn", expires |-> 2]>>)>>,
      <<"whispers", ListV(<<[user |-> "u"], [user |-> "u", closed_at |-> 1]>>)>> }
RetentionDays == {0, 1}
\* The guild whose document the callers read and write.
DocGuilds == {1}

\* What a call on a document leaves for the properties: its result, the
\* store and the cache before and after it, whether a request of it failed.
Did(op, r, st) ==
    [op |-> op, ret |-> r, wfailed |-> st.wfailed, clean |-> ~st.failed,
     store0 |-> store, cache0 |-> cache, store1 |-> st.store, cache1 |-> st.cache]
NoMoreLogs == [g |-> 0 - 1, given |-> <<>>]

GetSection ==
    /\ ops < MaxDocOps
    /\ ops' = ops + 1
    /\ \E g \in DocGuilds, sec \in {"logs", "xp_settings"}, f \in Faults(1) :
       \E x \in {RunGetSection(RunRead(Begin(store, cache, f), GuildKey(g)), sec)} :
        /\ Outcome(x)
        /\ dlast' = Did("get_section", x.ret, x.st)
    /\ lg' = NoMoreLogs
    /\ UNCHANGED <<writeLock, pc, kind, ckey, cdata, reply, wok, ret, posted>>
    /\ UNCHANGED <<txnVars, soVars, gVars, rVars>>

DocUpdateSection ==
    /\ ops < MaxDocOps
    /\ ops' = ops + 1
    /\ \E g \in DocGuilds, sv \in DocSections, f \in Faults(2) :
       \E x \in {RunUpdateSection(RunRead(Begin(store, cache, f), GuildKey(g)),
                                  g, sv[1], sv[2])} :
        /\ Outcome(x)
        /\ dlast' = Did("update_section", x.ret, x.st)
    /\ lg' = NoMoreLogs
    /\ UNCHANGED <<writeLock, pc, kind, ckey, cdata, reply, wok, ret, posted>>
    /\ UNCHANGED <<txnVars, soVars, gVars, rVars>>

AddLog ==
    /\ ops < MaxDocOps
    /\ ops' = ops + 1
    /\ \E g \in DocGuilds, t \in Times, f \in Faults(3) :
       \E x \in {RunAddLog(RunGetSection(RunRead(Begin(store, cache, f), GuildKey(g)),
                                         "logs"),
                           g, [msg |-> ops + 1, timestamp |-> t])} :
        /\ Outcome(x)
        /\ dlast' = Did("add_log", x.ret, x.st)
        /\ lg' = IF lg.g \in {0, g} /\ ~x.st.failed
                 THEN [g |-> g,
                       given |-> Append(lg.given, [msg |-> ops + 1, timestamp |-> t])]
                 ELSE NoMoreLogs
    /\ UNCHANGED <<writeLock, pc, kind, ckey, cdata, reply, wok, ret, posted>>
    /\ UNCHANGED <<txnVars, soVars, gVars, rVars>>

CleanupOldData ==
    /\ ops < MaxDocOps
    /\ ops' = ops + 1
    /\ \E now \in Times, days \in RetentionDays, f \in Faults(3) :
       \E x \in {RunCleanup(RunRead(Begin(store, cache, f), GuildsKey), now, days)} :
        /\ Outcome(x)
        /\ dlast' = Did("cleanup_old_data", x.ret, x.st) @@ [now |-> now, days |-> days]
    /\ lg' = NoMoreLogs
    /\ UNCHANGED <<writeLock, pc, kind, ckey, cdata, reply, wok, ret, posted>>
    /\ UNCHANGED <<txnVars, soVars, gVars, rVars>>

\* optimize, lines 294-310: the cache is cleared first.
Optimize ==
    /\ ops < MaxDocOps
    /\ ops' = ops + 1
    /\ \E f \in Faults(3) :
       \E x \in {RunOptimize(RunRead(Begin(store, [k \in Keys |-> Miss], f), GuildsKey))} :
        /\ Outcome(x)
        /\ dlast' = Did("optimize", x.ret, x.st)
    /\ lg' = NoMoreLogs
    /\ UNCHANGED <<writeLock, pc, kind, ckey, cdata, reply, wok, ret, posted>>
    /\ UNCHANGED <<txnVars, soVars, gVars, rVars>>

\* sync_guilds for a bot in one guild, with a store that answers.
SyncOneGuild ==
    /\ ops < MaxDocOps
    /\ ops' = ops + 1
    /\ \E g \in Guilds, t \in Times :
       \E x \in {RunSync(Begin(store, cache, NoFault), <<g>>, t)} :
        /\ Outcome(x)
    /\ UNCHANGED <<writeLock, pc, kind, ckey, cdata, reply, wok, ret, posted>>
    /\ UNCHANGED <<txnVars, soVars, gVars, xVars>>

NextDoc ==
    \/ GetSection
    \/ DocUpdateSection
    \/ AddLog
    \/ CleanupOldData
    \/ Optimize
    \/ Close
    \/ SyncOneGuild

SpecDoc == Init /\ [][NextDoc]_vars

\* ----------------- update_section and increment_stat, request by request
\* The callers below run update_section(1, section, data) and
\* increment_stat(7, name) one suspension point at a time.
UpdateCalls ==
    { [kind |-> "update", key |-> GuildKey(1), sec |-> sv[1], data |-> sv[2], got |-> 0] :
        sv \in { <<"xp_settings", CustomXp>>, <<"whisper_config", [enabled |-> TRUE]>> } }
StatCalls ==
    { [kind |-> "stat", key |-> StatKey, sec |-> "commands", data |-> EmptyDict, got |-> 0] }

\* The data of a waiting _write_data call that is the object the cache holds
\* under the call's key: json.dumps (line 87) reads it once the lock is
\* taken, with what other callers have assigned to it in the meantime.
Ref == [t |-> "ref"]

\* The cache entry of k is about to be replaced or dropped: the callers that
\* hold the old object keep it as it is now.
Detach(cd, k, c) ==
    [q \in Procs |->
        IF pc[q] = "w_lock" /\ ckey[q] = k /\ cd[q] = Ref THEN c[k] ELSE cd[q]]

\* Line 221, "guild_data[section] = data", and line 464,
\* "stats[stat_name] = stats.get(stat_name, 0) + 1", on a dict d.
NewDoc(call, d) ==
    IF call.kind = "stat"
    THEN SetSection(d, call.sec, (IF call.sec \in DOMAIN d THEN d[call.sec] ELSE 0) + 1)
    ELSE SetSection(d, call.sec, call.data)

\* asyncio.Lock.acquire returns at once when the lock is free and nobody
\* waits for it.
LockIdle == writeLock = 0 /\ \A q \in Procs : pc[q] # "w_lock"

\* _read_data has returned val to caller p, with the cache at c. A str takes
\* neither item assignment nor .get: update_section raises, increment_stat
\* returns False. Otherwise the dict is changed (it is the cache's own
\* object unless it is the fresh {} of "or {}") and _write_data is entered:
\* lines 84-92 run at once when the lock is idle.
Modify(p, call, val, c, cd) ==
    IF OrElse(val, DictV(EmptyDict)).t # "dict"
    THEN /\ cache' = c
         /\ cdata' = cd
         /\ pc' = [pc EXCEPT ![p] = "idle"]
         /\ UNCHANGED writeLock
    ELSE /\ cache' = IF Truthy(val)
                     THEN [c EXCEPT ![call.key] = DictV(NewDoc(call, val.d))]
                     ELSE c
         /\ IF LockIdle
            THEN /\ writeLock' = p
                 /\ pc' = [pc EXCEPT ![p] = "w_sent"]
                 /\ cdata' = [cd EXCEPT ![p] =
                                DictV(NewDoc(call, OrElse(val, DictV(EmptyDict)).d))]
            ELSE /\ UNCHANGED writeLock
                 /\ pc' = [pc EXCEPT ![p] = "w_lock"]
                 /\ cdata' = [cd EXCEPT ![p] =
                                IF Truthy(val) THEN Ref
                                ELSE DictV(NewDoc(call, EmptyDict))]

\* The call starts: a cache hit goes on to the assignment at once, a miss
\* sends the GET.
RmwCall(p, calls, max) ==
    /\ pc[p] = "idle"
    /\ ops < max
    /\ ops' = ops + 1
    /\ \E call \in calls :
        /\ arg' = [arg EXCEPT ![p] = call]
        /\ kind' = [kind EXCEPT ![p] = call.kind]
        /\ ckey' = [ckey EXCEPT ![p] = call.key]
        /\ IF cache[call.key] # Miss
           THEN /\ Modify(p, call, cache[call.key], cache, cdata)
                /\ ret' = [ret EXCEPT ![p] = cache[call.key]]
           ELSE /\ pc' = [pc EXCEPT ![p] = "r_sent"]
                /\ ret' = [ret EXCEPT ![p] = NoneV]
                /\ UNCHANGED <<cache, cdata, writeLock>>
    /\ wok' = [wok EXCEPT ![p] = FALSE]
    /\ UNCHANGED <<store, reply, posted>>
    /\ UNCHANGED <<txnVars, soVars, gVars, dVars>>

UpdateSectionCall(p) == RmwCall(p, UpdateCalls, MaxUpdateOps)
IncrementStatCall(p) == RmwCall(p, StatCalls, MaxStatOps)

\* The response of the GET is handled (lines 61-78) and the call goes on.
RmwReadResponse(p) ==
    /\ pc[p] = "r_replied"
    /\ ret' = [ret EXCEPT ![p] = ReadResult(reply[p])]
    /\ Modify(p, arg[p], ReadResult(reply[p]),
              CacheAfterRead(cache, ckey[p], reply[p]),
              IF reply[p].status = 200 THEN Detach(cdata, ckey[p], cache) ELSE cdata)
    /\ arg' = [arg EXCEPT ![p].got = reply[p].status]
    /\ reply' = [reply EXCEPT ![p] = NoReply]
    /\ UNCHANGED <<store, kind, ckey, wok, posted, ops>>
    /\ UNCHANGED <<txnVars, soVars, gVars, dVars>>

\* A waiting _write_data call gets the lock; lines 86-92.
RmwAcquire(p) ==
    /\ pc[p] = "w_lock"
    /\ WriteLockFree
    /\ writeLock' = p
    /\ cdata' = [cdata EXCEPT ![p] = IF cdata[p] = Ref THEN cache[ckey[p]] ELSE cdata[p]]
    /\ pc' = [pc EXCEPT ![p] = "w_sent"]
    /\ UNCHANGED <<store, cache, kind, ckey, reply, wok, ret, posted, ops>>
    /\ UNCHANGED <<txnVars, soVars, gVars, xVars>>

\* Lines 93-101, and the call returns what _write_data returned.
RmwWriteResponse(p) ==
    /\ pc[p] = "w_replied"
    /\ cache' = CacheAfterWrite(cache, ckey[p], cdata[p], reply[p].status)
    /\ cdata' = IF reply[p].status = 200 THEN Detach(cdata, ckey[p], cache) ELSE cdata
    /\ wok' = [wok EXCEPT ![p] = (reply[p].status = 200)]
    /\ writeLock' = LockAfterWrite(p, reply[p].status = 200)
    /\ reply' = [reply EXCEPT ![p] = NoReply]
    /\ pc' = [pc EXCEPT ![p] = "idle"]
    /\ UNCHANGED <<store, kind, ckey, ret, posted, ops>>
    /\ UNCHANGED <<txnVars, soVars, gVars, xVars>>

\* close, lines 166-174, while calls are under way.
RmwClose(max) ==
    /\ ops < max
    /\ ops' = ops + 1
    /\ cache' = [k \in Keys |-> Miss]
    /\ cdata' = [q \in Procs |->
                    IF pc[q] = "w_lock" /\ cdata[q] = Ref THEN cache[ckey[q]] ELSE cdata[q]]
    /\ initialized' = FALSE
    /\ UNCHANGED <<store, writeLock, pc, kind, ckey, reply, wok, ret, posted>>
    /\ UNCHANGED <<txnVars, soVars, last, scn, xVars>>

RmwStep(p) ==
    \/ ServerGet(p)
    \/ RmwReadResponse(p)
    \/ RmwAcquire(p)
    \/ ServerPost(p)
    \/ RmwWriteResponse(p)

CloseDuringUpdates == RmwClose(MaxUpdateOps)
NextUpdate ==
    \/ CloseDuringUpdates
    \/ \E p \in Procs : UpdateSectionCall(p) \/ RmwStep(p)

SpecUpdate == Init /\ [][NextUpdate]_vars

CloseDuringStats == RmwClose(MaxStatOps)
NextStat ==
    \/ CloseDuringStats
    \/ \E p \in Procs : IncrementStatCall(p) \/ RmwStep(p)

SpecStat == Init /\ [][NextStat]_vars

\* ------------------------- reads and writes of one key, a store that answers
\* Callers run _read_data and _write_data on the document of guild 1; every
\* request reaches the store and every response arrives.
MirrorKey == GuildKey(1)
MirrorVals == { DictV([name |-> "a"]), DictV([name |-> "b"]) }

MirrorRead(p) ==
    /\ pc[p] = "idle"
    /\ ops < MaxMirrorOps
    /\ ckey' = [ckey EXCEPT ![p] = MirrorKey]
    /\ ReadEnter(p, MirrorKey, cache)
    /\ kind' = [kind EXCEPT ![p] = "read"]
    /\ ops' = ops + 1
    /\ UNCHANGED <<store, cache, writeLock, cdata, reply, wok, posted>>
    /\ UNCHANGED <<txnVars, soVars, gVars, xVars>>

MirrorWrite(p) ==
    /\ pc[p] = "idle"
    /\ ops < MaxMirrorOps
    /\ \E v \in MirrorVals : cdata' = [cdata EXCEPT ![p] = v]
    /\ ckey' = [ckey EXCEPT ![p] = MirrorKey]
    /\ kind' = [kind EXCEPT ![p] = "write"]
    /\ pc' = [pc EXCEPT ![p] = "w_lock"]
    /\ wok' = [wok EXCEPT ![p] = FALSE]
    /\ ret' = [ret EXCEPT ![p] = NoneV]
    /\ posted' = [posted EXCEPT ![p] = <<>>]
    /\ ops' = ops + 1
    /\ UNCHANGED <<store, cache, writeLock, reply>>
    /\ UNCHANGED <<txnVars, soVars, gVars, xVars>>

\* The store answers the GET with what it holds now.
StoreGet(p) ==
    /\ pc[p] = "r_sent"
    /\ reply' = [reply EXCEPT ![p] = GetReply(store, ckey[p], TRUE)]
    /\ pc' = [pc EXCEPT ![p] = "r_replied"]
    /\ UNCHANGED <<store, cache, writeLock, kind, ckey, cdata, wok, ret, posted, ops>>
    /\ UNCHANGED <<txnVars, soVars, gVars, xVars>>

\* The store stores the text of the POST and answers 200.
StorePost(p) ==
    /\ pc[p] = "w_sent"
    /\ store' = StoreAfterPost(store, ckey[p], cdata[p], "ok")
    /\ reply' = [reply EXCEPT ![p] = PostReply("ok")]
    /\ pc' = [pc EXCEPT ![p] = "w_replied"]
    /\ UNCHANGED <<cache, writeLock, kind, ckey, cdata, wok, ret, posted, ops>>
    /\ UNCHANGED <<txnVars, soVars, gVars, xVars>>

NextMirror ==
    \E p \in Procs :
        \/ MirrorRead(p)
        \/ StoreGet(p)
        \/ ReadResponse(p)
        \/ MirrorWrite(p)
        \/ WAcquire(p)
        \/ StorePost(p)
        \/ WResponse(p)

SpecMirror == Init /\ [][NextMirror]_vars

\* --------------------------------------------- the three locks together
\* Callers write, run safe_operation and run transaction scopes side by
\* side; the func of a safe_operation call may itself call _write_data.
OutOfScope(p) == tphase[p] \in {"none", "released"}

\* One value is written throughout: the locks do not look at the data.
LiveVal == DictV([name |-> "a"])

LiveWrite(p) ==
    /\ OutOfScope(p)
    /\ ops < MaxLiveOps
    /\ WriteCall(p)
    /\ kind'[p] = "write"
    /\ ckey'[p] = GuildsKey
    /\ cdata'[p] = LiveVal
LiveSoCall(p) ==
    /\ OutOfScope(p)
    /\ ops < MaxLiveOps
    /\ SoCall(p)
    /\ soName'[p] = "add_log"
LiveBegin(p) ==
    /\ ops < MaxLiveOps
    /\ TxnBegin(p)
    /\ tscope'[p].g = 1
LiveBuffer(p) ==
    /\ TxnBuffer(p)
    /\ \A i \in 1..Len(changes'[p]) : changes'[p][i][2] = LiveVal

\* func calls _write_data once, under the lock of its operation name.
SoBodyWrite(p) ==
    /\ pc[p] = "so_body"
    /\ kind[p] = "safe_op"
    /\ ckey' = [ckey EXCEPT ![p] = GuildsKey]
    /\ cdata' = [cdata EXCEPT ![p] = LiveVal]
    /\ kind' = [kind EXCEPT ![p] = "so_write"]
    /\ pc' = [pc EXCEPT ![p] = "w_lock"]
    /\ UNCHANGED <<store, cache, writeLock, reply, wok, ret, posted, ops>>
    /\ UNCHANGED <<txnVars, soVars, gVars, xVars>>

NextLive ==
    \E p \in Procs :
        \/ LiveWrite(p)
        \/ LiveSoCall(p)
        \/ LiveBegin(p)
        \/ LiveBuffer(p)
        \/ TxnExit(p)
        \/ SoAcquire(p)
        \/ SoBodyWrite(p)
        \/ SoBodyEnd(p)
        \/ WAcquire(p)
        \/ ServerPost(p)
        \/ WResponse(p)

\* Every store call responds and its response is handled; every func and
\* every scope body ends; asyncio.Lock wakes its waiters in turn, so a
\* caller that waits for a lock that is freed again and again gets it.
Fairness ==
    \A p \in Procs :
        /\ WF_vars(ServerPost(p))
        /\ WF_vars(WResponse(p))
        /\ WF_vars(SoBodyEnd(p))
        /\ WF_vars(TxnExit(p))
        /\ SF_vars(WAcquire(p))
        /\ SF_vars(SoAcquire(p))

SpecLive == Init /\ [][NextLive]_vars /\ Fairness

\* ------------------------------------------------------------------ claims
\* C1: a successful _write_data(k, v) immediately followed by _read_data(k)
\* returns a value equal to v (the read is served by the cache).
CacheCoherence ==
    \A p \in Procs :
        (pc[p] = "idle" /\ kind[p] = "write_read" /\ wok[p]) => ret[p] = cdata[p]

\* The caller has sent a POST and not yet handled its response.
PostInFlight(p) == pc[p] \in {"w_sent", "w_replied"}

\* C5: at most one POST is in flight at any time, and a read in progress can
\* always take its next step, whoever holds the write lock.
WritesSerialized ==
    /\ Cardinality({p \in Procs : PostInFlight(p)}) <= 1
    /\ \A p \in Procs :
        /\ (\E q \in Procs : PostInFlight(q)) => PostInFlight(writeLock)
        /\ pc[p] = "r_sent" => ENABLED ServerGet(p)
        /\ pc[p] = "r_replied" => ENABLED ReadResponse(p)
\* A POST is in flight while another writer waits for the lock.
WritesSerializedWitness ==
    \E p, q \in Procs :
        /\ pc[p] = "w_sent" /\ pc[q] = "w_lock"
        /\ ckey[p] = ckey[q]

\* Between __aenter__ returning and __aexit__ finishing.
InScope(p) == tphase[p] \in {"active", "committing"}

\* C2: two transactions on the same (guild_id, namespace) are never inside
\* their scopes at the same time.
SameScopeSerialized ==
    \A p, q \in Procs :
        (p # q /\ InScope(p) /\ InScope(q)) => tscope[p] # tscope[q]

\* A transaction ended by an exception has sent no POST and is over.
AbortedQuiet ==
    \A p \in Procs :
        texc[p] = "error" =>
            /\ posted[p] = <<>>
            /\ tphase[p] = "released"
            /\ pc[p] = "idle"
\* The step that ends a scope with an exception leaves store and cache as
\* they are and frees the transaction's lock.
AbortStep ==
    \A p \in Procs :
        (tphase[p] = "active" /\ texc'[p] = "error") =>
            /\ store' = store
            /\ cache' = cache
            /\ ~txnLock'[p]

\* C3: a transaction whose scope exits with an exception sends no POST, and
\* the step that ends it changes neither the store nor the cache, whatever
\* its changes dict holds.
AbortWritesNothing == []AbortedQuiet /\ [][AbortStep]_vars
\* A transaction with buffered changes has ended with an exception.
AbortWritesNothingWitness ==
    \E p \in Procs :
        /\ texc[p] = "error"
        /\ tphase[p] = "released"
        /\ Len(changes[p]) = 2

\* The keys of a changes dict, in insertion order.
KeysOf(ch) == [i \in 1..Len(ch) |-> ch[i][1]]

\* C4: a transaction that exits cleanly sends one POST per buffered key, in
\* insertion order; none is sent before the scope exits, and while the
\* commit runs the POSTs sent are a prefix of that order.
CommitInOrder ==
    \A p \in Procs :
        /\ tphase[p] = "active" => posted[p] = <<>>
        /\ tphase[p] = "committing" =>
            /\ Len(posted[p]) \in {cidx[p] - 1, cidx[p]}
            /\ posted[p] = SubSeq(KeysOf(changes[p]), 1, Len(posted[p]))
            /\ pc[p] # "w_lock" => Len(posted[p]) = cidx[p]
        /\ (tphase[p] = "released" /\ texc[p] = "none") =>
            posted[p] = KeysOf(changes[p])
\* A clean exit that has written two keys.
CommitInOrderWitness ==
    \E p \in Procs :
        /\ tphase[p] = "released"
        /\ texc[p] = "none"
        /\ Len(changes[p]) = 2
        /\ posted[p] = KeysOf(changes[p])

\* func of the caller's safe_operation call is running.
InBody(p) == pc[p] = "so_body"

\* C6: the bodies of two safe_operation calls with the same name never run
\* at the same time, and a call waits only while a body of its own name runs.
SafeOpExclusion ==
    \A p \in Procs :
        /\ \A q \in Procs : (p # q /\ InBody(p) /\ InBody(q)) => soName[p] # soName[q]
        /\ InBody(p) => opLocks[soName[p]] = p
        /\ pc[p] = "so_wait" =>
            \/ \E q \in Procs : q # p /\ InBody(q) /\ soName[q] = soName[p]
            \/ ENABLED SoAcquire(p)
\* One call waits for a body of its name while a call of another name is
\* possible.
SafeOpExclusionWitness ==
    \E p, q \in Procs :
        /\ pc[p] = "so_wait" /\ InBody(q) /\ soName[q] = soName[p]
        /\ \E n \in OpNames : n # soName[p] /\ n \in DOMAIN opLocks /\ opLocks[n] = 0

\* C7: when func raises, safe_operation returns None and does not keep the
\* lock of its name.
SafeOpAbsorbsFailure ==
    \A p \in Procs :
        (pc[p] = "idle" /\ fexc[p]) =>
            /\ sres[p] = [how |-> "return", val |-> NoneV]
            /\ opLocks[soName[p]] # p
\* After a call whose func raised, another call of the same name runs.
SafeOpAbsorbsFailureWitness ==
    \E p, q \in Procs :
        /\ pc[p] = "idle" /\ fexc[p]
        /\ InBody(q) /\ soName[q] = soName[p]

\* C8: after initialize(), two calls ensure_guild_exists(g, name) in a row
\* (with at most a change of g's document in between, and no fault) both
\* return True, leave g in the guilds index exactly once, and the second
\* does not overwrite a document changed in between.
EnsureIdempotent ==
    scn.n = 2 =>
        /\ scn.ok
        /\ scn.custom => scn.kept
        /\ IndexCount(store, scn.g) = 1

\* C9: between calls, every guild that has a stored document is in the
\* stored guilds index.
GuildIndexInvariant ==
    \A g \in Guilds : HasDoc(store, g) => IndexCount(store, g) >= 1

\* C10: a sync_guilds call over N guilds, M of them with a stored document,
\* that meets no fault writes and creates N - M documents, leaves the M
\* documents as they were and returns success = N, failed = 0.
SyncCreatesMissing ==
    last.op = "sync" =>
        /\ last.wrote = last.n - last.m
        /\ last.created = last.n - last.m
        /\ last.kept
        /\ last.success = last.n
        /\ last.nfailed = 0
\* A sync over two guilds, one of which had a document.
SyncCreatesMissingWitness ==
    /\ last.op = "sync"
    /\ last.n = 2
    /\ last.m = 1
    /\ last.created = 1

\* The logs section the store holds for guild g.
LogsOf(st, g) ==
    IF st[GuildKey(g)].k = "json" /\ st[GuildKey(g)].v.t = "dict"
       /\ "logs" \in DOMAIN st[GuildKey(g)].v.d
    THEN st[GuildKey(g)].v.d.logs
    ELSE EmptyDict

\* C11: after n add_log calls in a row on one guild, none of which met a
\* fault, the stored logs section of the guild is the list of the last
\* min(n, 1000) entries given, in the order they were given.
LogsKeepLast ==
    lg.g > 0 =>
        LogsOf(store, lg.g) =
            ListV(SubSeq(lg.given,
                         Len(lg.given) + 1 - (IF Len(lg.given) < LogCap
                                              THEN Len(lg.given) ELSE LogCap),
                         Len(lg.given)))

\* C12: no call of an operation on a document ends with an exception,
\* whatever the cache and the store hold and whichever request fails.
NoFaultEscapes ==
    dlast.op # "none" => dlast.ret \in {"True", "False", "value"}

\* The document a store holds under key k (an empty one when it holds none).
DocOf(st, k) ==
    IF st[k].k = "json" /\ st[k].v.t = "dict" THEN st[k].v.d ELSE EmptyDict
\* A document after the retention rules: the entries of logs later than the
\* cutoff, the mod_actions with no expires or one in the future, the
\* whispers with no closed_at or one later than the cutoff.
Retained(d, now, cutoff) ==
    [x \in DOMAIN d |->
        IF ~IsListS(d[x]) THEN d[x]
        ELSE IF x = "logs"
        THEN ListV(SelectSeq(d[x].l, LAMBDA e : e.timestamp > cutoff))
        ELSE IF x = "mod_actions"
        THEN ListV(SelectSeq(d[x].l,
                             LAMBDA a : "expires" \in DOMAIN a => a.expires > now))
        ELSE IF x = "whispers"
        THEN ListV(SelectSeq(d[x].l,
                             LAMBDA w : "closed_at" \in DOMAIN w => w.closed_at > cutoff))
        ELSE d[x]]

\* C14: a cleanup_old_data(days) call that meets no fault returns True and
\* leaves in the store, for every guild of the stored index, the guild's
\* document after the retention rules.
CleanupRetains ==
    (dlast.op = "cleanup_old_data" /\ dlast.clean) =>
        /\ dlast.ret = "True"
        /\ \A i \in 1..Len(IndexOf(dlast.store0)) :
              dlast.store1[IdKey(IndexOf(dlast.store0)[i])] =
                  JsonText(DictV(Retained(DocOf(dlast.store0, IdKey(IndexOf(dlast.store0)[i])),
                                          dlast.now, dlast.now - dlast.days)))

\* C17: when a store write inside update_section, add_log or
\* cleanup_old_data has failed, every cache entry is what it was before the
\* call, or what a read of the call got from the store, or what a write of
\* the call stored.
CacheOnlyOnSuccess ==
    (dlast.op \in {"update_section", "add_log", "cleanup_old_data"} /\ dlast.wfailed) =>
        \A k \in Keys :
            \/ dlast.cache1[k] = dlast.cache0[k]
            \/ /\ dlast.cache0[k] = Miss
               /\ dlast.store0[k] # Absent
               /\ dlast.cache1[k] = Loads(dlast.store0[k])
            \/ /\ dlast.store1[k] # Absent
               /\ dlast.cache1[k] = StrV(dlast.store1[k])

\* The counter "commands" of the stored statistics of bot 7, 0 when absent.
StatOf(st) ==
    IF "commands" \in DOMAIN DocOf(st, StatKey) THEN DocOf(st, StatKey).commands ELSE 0
\* C13: whatever the interleaving of increment_stat calls and cache clears,
\* no step makes the stored counter smaller.
StatNeverDecreases == [][StatOf(store') >= StatOf(store)]_vars

\* C15: update_section holds no lock from its read to its write, and the
\* document its write stores holds the caller's section with the caller's
\* data: the whole document is replaced by the one the caller read.
UpdateWritesWholeDoc ==
    \A p \in Procs :
        /\ pc[p] \in {"r_sent", "r_replied"} => writeLock # p
        /\ (pc[p] = "w_replied" /\ kind[p] = "update" /\ reply[p].status = 200) =>
              /\ arg[p].sec \in DOMAIN DocOf(store, ckey[p])
              /\ DocOf(store, ckey[p])[arg[p].sec] = arg[p].data
\* Two update_section calls on different sections of guild 1 have both read
\* the store before either wrote (both GETs answered 404), both have
\* returned True, and the stored document lacks one of the two sections.
LostUpdate ==
    \E p, q \in Procs :
        /\ pc[p] = "idle" /\ pc[q] = "idle"
        /\ kind[p] = "update" /\ kind[q] = "update"
        /\ wok[p] /\ wok[q]
        /\ arg[p].got = 404 /\ arg[q].got = 404
        /\ arg[p].sec # arg[q].sec
        /\ arg[p].sec \notin DOMAIN DocOf(store, GuildKey(1))
        /\ arg[q].sec \in DOMAIN DocOf(store, GuildKey(1))

\* C16: the step that takes a failed write of a commit leaves the store as
\* it is (nothing written earlier is undone), goes on to the next pair in
\* insertion order while one is left, and releases the transaction's lock
\* after the last one.
CommitNoRollback ==
    [][\A p \in Procs :
          (pc[p] = "w_replied" /\ kind[p] = "txn" /\ reply[p].status # 200
              /\ pc'[p] # "w_replied") =>
            /\ store' = store
            /\ writeLock' = 0
            /\ IF cidx[p] < Len(changes[p])
               THEN /\ tphase'[p] = "committing"
                    /\ cidx'[p] = cidx[p] + 1
                    /\ ckey'[p] = changes[p][cidx[p] + 1][1]
                    /\ cdata'[p] = changes[p][cidx[p] + 1][2]
                    /\ pc'[p] = "w_lock"
                    /\ txnLock'[p]
               ELSE /\ tphase'[p] = "released"
                    /\ ~txnLock'[p]]_vars
\* A commit of two keys is over and has released its lock: its second write
\* failed and the store still holds what its first write stored.
CommitNoRollbackWitness ==
    \E p \in Procs :
        /\ tphase[p] = "released"
        /\ texc[p] = "none"
        /\ ~txnLock[p]
        /\ Len(changes[p]) = 2
        /\ posted[p] = KeysOf(changes[p])
        /\ ~wok[p]
        /\ changes[p][1][1] # changes[p][2][1]
        /\ store[changes[p][1][1]] = WData(changes[p][1][2]).s
        /\ store[changes[p][2][1]] # WData(changes[p][2][2]).s

\* C18: whenever no call is in flight, every cached value is the value the
\* store holds for its key (as the decoded value, or as the stored text
\* itself, which is what a write leaves in the cache).
CacheMirrorsStore ==
    (\A p \in Procs : pc[p] = "idle") =>
        \A k \in Keys :
            cache[k] # Miss =>
                /\ store[k] # Absent
                /\ cache[k] \in {Loads(store[k]), StrV(store[k])}

\* The store holds a guilds index with at least one id.
HasGuilds(st) == st[GuildsKey] \notin {Absent, Dumps(ListV(<<>>))}
\* C19: an initialize() call leaves a stored index with ids in it as it is,
\* whatever fails during the call, and when it returns True the guilds key
\* exists in the store.
InitializeKeepsIndex ==
    [][Initialize =>
          /\ HasGuilds(store) => store'[GuildsKey] = store[GuildsKey]
          /\ initialized' => store'[GuildsKey] # Absent]_vars

\* Caller p holds the lock of operation name n.
HoldsOp(p, n) == n \in DOMAIN opLocks /\ opLocks[n] = p
\* C20: every lock that is held (write lock, lock of an operation name,
\* lock of a transaction) is released later, and every _write_data call,
\* safe_operation call and transaction scope under way comes to its end.
LocksReleased ==
    \A p \in Procs :
        /\ (writeLock = p) ~> (writeLock # p)
        /\ \A n \in OpNames : HoldsOp(p, n) ~> ~HoldsOp(p, n)
        /\ txnLock[p] ~> ~txnLock[p]
        /\ (pc[p] # "idle") ~> (pc[p] = "idle")
        /\ (tphase[p] \in {"active", "committing"}) ~> (tphase[p] = "released")
\* The three kinds of lock are held at once and a caller waits: q commits a
\* transaction and holds the write lock with a write that has failed, while
\* p, inside func under the lock of its operation name, waits for the write
\* lock.
LocksReleasedWitness ==
    \E p, q \in Procs :
        /\ \E n \in OpNames : HoldsOp(p, n)
        /\ kind[p] = "so_write" /\ pc[p] = "w_lock"
        /\ txnLock[q] /\ tphase[q] = "committing"
        /\ writeLock = q /\ pc[q] = "w_replied" /\ reply[q].status # 200

====
